---- MODULE Spec2Model ----
(***************************************************************************)
(* devbackup: the config-driven copy routine of src/devbackup/devbackup.py *)
(* (make_dir, copy_file, copy_dir, backup, main) over a model of the       *)
(* filesystem.                                                             *)
(*                                                                         *)
(* A file name is a sequence of characters, a path is a sequence of names. *)
(* The filesystem is a function from the paths that exist to their node:   *)
(* "dir" for a directory, any other string is the content of a regular     *)
(* file.  The empty path is the filesystem's top directory.                *)
(***************************************************************************)
EXTENDS Integers, Sequences, FiniteSets, TLC

VARIABLES
    fs,       \* the filesystem
    config,   \* the loaded configuration document
    mode,     \* the entry point in use: "backup", "main" or "make_dir"
    pc,       \* the statement the run is at
    i,        \* index of the next item of the list being looped over
    status,   \* "running", "returned" or "raised"
    err,      \* the error the run ended with ("none" if none)
    run,      \* number of the run (of the calls made, for make_dir)
    pre,      \* the filesystem when the run (the call) began
    prev,     \* the filesystem the previous run left
    dirpath   \* the argument of the make_dir calls

vars == <<fs, config, mode, pc, i, status, err, run, pre, prev, dirpath>>

(* ---- bounds ---- *)
MaxItems == 2      \* longest dotfiles / dotfolders list
MaxRuns == 2       \* successive runs on the same destination root
MaxCalls == 3      \* successive make_dir calls on the same path

(* ---- names and paths ---- *)
A == <<"a">>
B == <<"b">>
S == <<"s">>
F == <<"f">>
G == <<"g">>
Sub == <<"d">>
Old == <<"o", "l", "d">>
BrewTxt == <<"b", "r", "e", "w", ".", "t", "x", "t">>
CaskTxt == <<"c", "a", "s", "k", ".", "t", "x", "t">>
CondaBackups == <<"c", "o", "n", "d", "a", "_", "b", "a", "c", "k", "u", "p", "s">>
Env == <<"e">>
DotYml == <<".", "y", "m", "l">>

Names == {A, B}

\* "." + item
Dot(item) == <<".">> \o item

\* Path.home()
Home == << <<"~">> >>

\* Path(args.output): a directory below a working directory
Work == << <<"w">> >>
Root == Work \o << <<"o", "u", "t">> >>

Parent(p) == SubSeq(p, 1, Len(p) - 1)

Name(p) == p[Len(p)]

IsPrefix(p, q) == Len(p) <= Len(q) /\ SubSeq(q, 1, Len(p)) = p

Prefixes(p) == {SubSeq(p, 1, k) : k \in 1..Len(p)}

Children(f, p) == {q \in DOMAIN f : Len(q) = Len(p) + 1 /\ IsPrefix(p, q)}

Below(f, p) == {q \in DOMAIN f : Len(q) > Len(p) /\ IsPrefix(p, q)}

Restrict(f, D) == [q \in D |-> f[q]]

Ok(f) == [fs |-> f, err |-> "none"]

Fail(f, e) == [fs |-> f, err |-> e]

(* ---- filesystem primitives (pathlib, shutil) ---- *)

\* Path.exists()
exists(f, p) == p \in DOMAIN f

\* shutil.rmtree(path)
rmtree(f, p) ==
    IF p \notin DOMAIN f THEN Fail(f, "FileNotFoundError")
    ELSE IF f[p] # "dir" THEN Fail(f, "NotADirectoryError")
    ELSE Ok(Restrict(f, {q \in DOMAIN f : ~IsPrefix(p, q)}))

\* Path.mkdir(parents=True)
mkdir(f, p) ==
    IF p \in DOMAIN f THEN Fail(f, "FileExistsError")
    ELSE IF \E q \in Prefixes(p) : q \in DOMAIN f /\ f[q] # "dir"
         THEN Fail(f, "NotADirectoryError")
    ELSE Ok([q \in DOMAIN f \cup Prefixes(p) |->
                IF q \in DOMAIN f THEN f[q] ELSE "dir"])

\* shutil.copy2(src, dst, follow_symlinks=True)
copy2(f, src, dst) ==
    LET target == IF dst \in DOMAIN f /\ f[dst] = "dir"
                  THEN dst \o <<Name(src)>> ELSE dst
    IN  IF src \notin DOMAIN f THEN Fail(f, "FileNotFoundError")
        ELSE IF f[src] = "dir" THEN Fail(f, "IsADirectoryError")
        ELSE IF Parent(target) \notin DOMAIN f THEN Fail(f, "FileNotFoundError")
        ELSE IF f[Parent(target)] # "dir" THEN Fail(f, "NotADirectoryError")
        ELSE IF target \in DOMAIN f /\ f[target] = "dir"
             THEN Fail(f, "IsADirectoryError")
        ELSE Ok([q \in DOMAIN f \cup {target} |->
                    IF q = target THEN f[src] ELSE f[q]])

\* fnmatch.fnmatch(name, pat) for literal characters, "*" and "?"
RECURSIVE fnmatch(_, _)
fnmatch(name, pat) ==
    IF pat = <<>> THEN name = <<>>
    ELSE IF Head(pat) = "*"
         THEN fnmatch(name, Tail(pat))
              \/ (name # <<>> /\ fnmatch(Tail(name), pat))
    ELSE IF name = <<>> THEN FALSE
    ELSE (Head(pat) = "?" \/ Head(pat) = Head(name))
         /\ fnmatch(Tail(name), Tail(pat))

\* shutil.ignore_patterns(*exclude) applied to one entry name
ignore_patterns(exclude, name) == \E pat \in exclude : fnmatch(name, pat)

\* shutil.copytree(src, dst, ignore=ignore_patterns(*exclude), copy_function=copy2)
copytree(f, src, dst, exclude) ==
    LET kept == {q \in DOMAIN f :
                    /\ IsPrefix(src, q)
                    /\ \A k \in (Len(src) + 1)..Len(q) :
                          ~ignore_patterns(exclude, q[k])}
        to(q) == dst \o SubSeq(q, Len(src) + 1, Len(q))
        new == {to(q) : q \in kept}
        from(t) == CHOOSE q \in kept : to(q) = t
    IN  IF src \notin DOMAIN f THEN Fail(f, "FileNotFoundError")
        ELSE IF f[src] # "dir" THEN Fail(f, "NotADirectoryError")
        ELSE IF dst \in DOMAIN f THEN Fail(f, "FileExistsError")
        ELSE IF \E q \in Prefixes(dst) : q \in DOMAIN f /\ f[q] # "dir"
             THEN Fail(f, "NotADirectoryError")
        ELSE Ok([t \in DOMAIN f \cup Prefixes(dst) \cup new |->
                    IF t \in new THEN f[from(t)]
                    ELSE IF t \in DOMAIN f THEN f[t] ELSE "dir"])

\* open(path, "w").write(text)
write_text(f, p, text) ==
    IF Parent(p) \notin DOMAIN f THEN Fail(f, "FileNotFoundError")
    ELSE IF f[Parent(p)] # "dir" THEN Fail(f, "NotADirectoryError")
    ELSE IF p \in DOMAIN f /\ f[p] = "dir" THEN Fail(f, "IsADirectoryError")
    ELSE Ok([q \in DOMAIN f \cup {p} |-> IF q = p THEN text ELSE f[q]])

(* ---- Python API ---- *)

\* make_dir without line 56: the cleared directory is not created again
make_dir_no_recreate(f, path) ==
    IF ~exists(f, path) THEN mkdir(f, path) ELSE rmtree(f, path)

\* make_dir that leaves an existing directory as it is
make_dir_keep(f, path) ==
    IF ~exists(f, path) THEN mkdir(f, path) ELSE Ok(f)

make_dir(f, path) ==
    IF ~exists(f, path) THEN mkdir(f, path)
    ELSE LET r == rmtree(f, path)
         IN  IF r.err # "none" THEN r ELSE mkdir(r.fs, path)

\* copy_file without line 67: the parent directory is not cleared
copy_file_no_clear(f, src, dst, exclude) ==
    IF Name(src) \notin exclude THEN copy2(f, src, dst) ELSE Ok(f)

copy_file(f, src, dst, exclude) ==
    LET r == make_dir(f, Parent(dst))
    IN  IF r.err # "none" THEN r
        ELSE IF Name(src) \notin exclude THEN copy2(r.fs, src, dst)
        ELSE r

copy_dir(f, src, dst, exclude) ==
    IF Name(src) \notin exclude THEN copytree(f, src, dst, exclude)
    ELSE Ok(f)

\* config[key] raises KeyError when the key is absent
HasKey(cfg, key) == key \in DOMAIN cfg

\* body of the first loop of backup for one item
backup_dotfile(f, cfg, item) ==
    LET src == Home \o <<Dot(item)>>
        dst == Root \o <<item>>
        r == make_dir(f, Parent(dst))
    IN  IF r.err # "none" THEN r
        ELSE IF ~HasKey(cfg, "exclude") THEN Fail(r.fs, "KeyError")
        ELSE copy_file(r.fs, src, dst, cfg["exclude"])

\* body of the second loop of backup for one item
backup_dotfolder(f, cfg, item) ==
    LET src == Home \o <<Dot(item)>>
        dst == Root \o <<item>>
        r == make_dir(f, dst)
    IN  IF r.err # "none" THEN r
        ELSE IF ~HasKey(cfg, "exclude") THEN Fail(r.fs, "KeyError")
        ELSE copy_dir(r.fs, src, dst, cfg["exclude"])

\* "except Exception: pass"
Caught_everything(e) == TRUE

\* "except KeyError: pass" of backup
Caught(e) == e = "KeyError"

\* the first loop of backup from item k on
RECURSIVE backup_dotfiles(_, _, _)
backup_dotfiles(f, cfg, k) ==
    IF k > Len(cfg["dotfiles"]) THEN Ok(f)
    ELSE LET r == backup_dotfile(f, cfg, cfg["dotfiles"][k])
         IN  IF r.err # "none" THEN r ELSE backup_dotfiles(r.fs, cfg, k + 1)

\* the second loop of backup from item k on
RECURSIVE backup_dotfolders(_, _, _)
backup_dotfolders(f, cfg, k) ==
    IF k > Len(cfg["dotfolders"]) THEN Ok(f)
    ELSE LET r == backup_dotfolder(f, cfg, cfg["dotfolders"][k])
         IN  IF r.err # "none" THEN r ELSE backup_dotfolders(r.fs, cfg, k + 1)

\* backup(path, config) as a whole, path = Root
backup(f, cfg) ==
    LET r1 == IF ~HasKey(cfg, "dotfiles") THEN Fail(f, "KeyError")
              ELSE backup_dotfiles(f, cfg, 1)
        r2 == IF r1.err # "none" THEN r1
              ELSE IF ~HasKey(cfg, "dotfolders") THEN Fail(r1.fs, "KeyError")
              ELSE backup_dotfolders(r1.fs, cfg, 1)
    IN  IF Caught(r2.err) THEN Ok(r2.fs) ELSE r2

\* body of the dotfiles loop of main for one item
main_dotfile(f, cfg, item) ==
    IF ~HasKey(cfg, "exclude") THEN Fail(f, "KeyError")
    ELSE copy_file(f, Home \o <<Dot(item)>>, Root \o <<item>>, cfg["exclude"])

\* body of the dotfolders loop of main for one item
main_dotfolder(f, cfg, item) ==
    IF ~HasKey(cfg, "exclude") THEN Fail(f, "KeyError")
    ELSE copy_dir(f, Home \o <<Dot(item)>>, Root \o <<item>>, cfg["exclude"])

\* the loop of main over the conda environments from environment k on
RECURSIVE export_envs(_, _, _)
export_envs(f, envs, k) ==
    IF k > Len(envs) THEN Ok(f)
    ELSE LET r == write_text(f, Root \o <<CondaBackups, envs[k] \o DotYml>>, "yml")
         IN  IF r.err # "none" THEN r ELSE export_envs(r.fs, envs, k + 1)

\* the brew, cask and conda exports of main; brew and conda tell whether the
\* executable is found, envs are the environments conda lists
main_exports(f, brew, conda, envs) ==
    LET r1 == IF ~brew THEN Fail(f, "FileNotFoundError")
              ELSE write_text(f, Root \o <<BrewTxt>>, "txt")
        r2 == IF r1.err # "none" THEN r1
              ELSE write_text(r1.fs, Root \o <<CaskTxt>>, "txt")
        r3 == IF r2.err # "none" THEN r2
              ELSE IF ~conda THEN Fail(r2.fs, "FileNotFoundError")
              ELSE make_dir(r2.fs, Root \o <<CondaBackups>>)
    IN  IF r3.err # "none" THEN r3 ELSE export_envs(r3.fs, envs, 1)

(* ---- initial states ---- *)

Top == (<<>> :> "dir") @@ (Home :> "dir")

HomeA ==
    { << >>,
      (Home \o <<Dot(A)>>) :> "c1",
      ((Home \o <<Dot(A)>>) :> "dir")
        @@ ((Home \o <<Dot(A), F>>) :> "c1")
        @@ ((Home \o <<Dot(A), S>>) :> "c2")
        @@ ((Home \o <<Dot(A), Sub>>) :> "dir")
        @@ ((Home \o <<Dot(A), Sub, S>>) :> "c1")
        @@ ((Home \o <<Dot(A), Sub, G>>) :> "c2") }

HomeB ==
    { << >>,
      (Home \o <<Dot(B)>>) :> "c2",
      ((Home \o <<Dot(B)>>) :> "dir")
        @@ ((Home \o <<Dot(B), S>>) :> "dir")
        @@ ((Home \o <<Dot(B), S, F>>) :> "c1")
        @@ ((Home \o <<Dot(B), G>>) :> "c2") }

Dests ==
    { << >>,
      Work :> "dir",
      (Work :> "dir") @@ (Root :> "dir"),
      (Work :> "dir") @@ (Root :> "dir")
        @@ ((Root \o <<Old>>) :> "old")
        @@ ((Root \o <<A>>) :> "dir")
        @@ ((Root \o <<A, Old>>) :> "old"),
      (Work :> "dir") @@ (Root :> "dir") @@ ((Root \o <<A>>) :> "old") }

Lists == UNION {[1..n -> Names] : n \in 0..MaxItems}

Excludes == { {}, {A}, {Dot(A)}, {S}, {Dot(B), S}, {<<"*">>} }

\* one key of the configuration document, present or absent
Field(key, present, value) == IF present THEN key :> value ELSE << >>

Configs ==
    { Field("dotfiles", p1, l1) @@ Field("dotfolders", p2, l2)
        @@ Field("exclude", p3, e) :
        p1 \in BOOLEAN, p2 \in BOOLEAN, p3 \in BOOLEAN,
        l1 \in Lists, l2 \in Lists, e \in Excludes }

Init ==
    /\ \E ha \in HomeA, hb \in HomeB, d \in Dests : fs = Top @@ ha @@ hb @@ d
    /\ config \in Configs
    /\ mode \in {"backup", "main"}
    /\ pc = "start"
    /\ i = 1
    /\ status = "running"
    /\ err = "none"
    /\ run = 1
    /\ pre = fs
    /\ prev = << >>
    /\ dirpath = Root

(* ---- one run, statement by statement ---- *)

Running(m, at) == mode = m /\ status = "running" /\ pc = at

Keep == UNCHANGED <<config, mode, run, pre, prev, dirpath>>

\* the run goes on at position at, item k
Goto(f, at, k) ==
    /\ fs' = f
    /\ pc' = at
    /\ i' = k
    /\ status' = "running"
    /\ err' = "none"

\* the run ends where it is: normally, or with the uncaught error e
Stop(f, e) ==
    /\ fs' = f
    /\ status' = IF e = "none" THEN "returned" ELSE "raised"
    /\ err' = e
    /\ UNCHANGED <<pc, i>>

\* the outcome r of a statement inside the try block of backup
Try(r, at, k) ==
    IF r.err = "none" THEN Goto(r.fs, at, k)
    ELSE IF Caught(r.err) THEN Stop(r.fs, "none")
    ELSE Stop(r.fs, r.err)

\* the outcome r of a statement of main
Do(r, at, k) ==
    IF r.err = "none" THEN Goto(r.fs, at, k) ELSE Stop(r.fs, r.err)

\* config[key] as a statement outcome
Lookup(f, key) == IF HasKey(config, key) THEN Ok(f) ELSE Fail(f, "KeyError")

BackupStart ==
    /\ Running("backup", "start")
    /\ Try(Lookup(fs, "dotfiles"), "files", 1)
    /\ Keep

BackupDotfile ==
    /\ Running("backup", "files")
    /\ i <= Len(config["dotfiles"])
    /\ Try(backup_dotfile(fs, config, config["dotfiles"][i]), "files", i + 1)
    /\ Keep

BackupFilesDone ==
    /\ Running("backup", "files")
    /\ i > Len(config["dotfiles"])
    /\ Try(Lookup(fs, "dotfolders"), "folders", 1)
    /\ Keep

BackupDotfolder ==
    /\ Running("backup", "folders")
    /\ i <= Len(config["dotfolders"])
    /\ Try(backup_dotfolder(fs, config, config["dotfolders"][i]), "folders", i + 1)
    /\ Keep

BackupReturn ==
    /\ Running("backup", "folders")
    /\ i > Len(config["dotfolders"])
    /\ Stop(fs, "none")
    /\ Keep

MainStart ==
    /\ Running("main", "start")
    /\ LET r == make_dir(fs, Root)
       IN  Do(IF r.err # "none" THEN r ELSE Lookup(r.fs, "dotfiles"), "files", 1)
    /\ Keep

MainDotfile ==
    /\ Running("main", "files")
    /\ i <= Len(config["dotfiles"])
    /\ Do(main_dotfile(fs, config, config["dotfiles"][i]), "files", i + 1)
    /\ Keep

MainFilesDone ==
    /\ Running("main", "files")
    /\ i > Len(config["dotfiles"])
    /\ Do(Lookup(fs, "dotfolders"), "folders", 1)
    /\ Keep

MainDotfolder ==
    /\ Running("main", "folders")
    /\ i <= Len(config["dotfolders"])
    /\ Do(main_dotfolder(fs, config, config["dotfolders"][i]), "folders", i + 1)
    /\ Keep

MainFoldersDone ==
    /\ Running("main", "folders")
    /\ i > Len(config["dotfolders"])
    /\ Goto(fs, "exports", 1)
    /\ Keep

MainExports ==
    /\ Running("main", "exports")
    /\ \E brew \in BOOLEAN, conda \in BOOLEAN, envs \in {<< >>, <<Env>>} :
          LET r == main_exports(fs, brew, conda, envs)
          IN  Stop(r.fs, r.err)
    /\ Keep

\* the same command is run again on the same destination root
Again ==
    /\ status # "running"
    /\ run < MaxRuns
    /\ run' = run + 1
    /\ prev' = fs
    /\ pre' = fs
    /\ pc' = "start"
    /\ i' = 1
    /\ status' = "running"
    /\ err' = "none"
    /\ UNCHANGED <<fs, config, mode, dirpath>>

Next ==
    \/ BackupStart
    \/ BackupDotfile
    \/ BackupFilesDone
    \/ BackupDotfolder
    \/ BackupReturn
    \/ MainStart
    \/ MainDotfile
    \/ MainFilesDone
    \/ MainDotfolder
    \/ MainFoldersDone
    \/ MainExports
    \/ Again

Spec == Init /\ [][Next]_vars

(* ---- make_dir called again and again on one path ---- *)

Stale(p) ==
    { (p \o <<Old>>) :> "old",
      ((p \o <<Sub>>) :> "dir") @@ ((p \o <<Sub, Old>>) :> "old"),
      ((p \o <<Old>>) :> "old") @@ ((p \o <<Sub>>) :> "dir")
        @@ ((p \o <<Sub, Old>>) :> "old") }

InitMakeDir ==
    /\ fs \in {Top @@ d : d \in Dests}
    /\ dirpath \in {Root, Root \o <<A>>, Root \o <<CondaBackups>>}
    /\ config = << >>
    /\ mode = "make_dir"
    /\ pc = "start"
    /\ i = 1
    /\ status = "running"
    /\ err = "none"
    /\ run = 0
    /\ pre = fs
    /\ prev = << >>

MakeDirCall ==
    /\ mode = "make_dir"
    /\ run < MaxCalls
    /\ LET r == make_dir(fs, dirpath)
       IN  /\ fs' = r.fs
           /\ err' = r.err
           /\ status' = IF r.err = "none" THEN "returned" ELSE "raised"
    /\ pre' = fs
    /\ run' = run + 1
    /\ pc' = "called"
    /\ UNCHANGED <<config, mode, i, prev, dirpath>>

\* somebody puts files into the directory between two calls
PlaceStale ==
    /\ mode = "make_dir"
    /\ pc = "called"
    /\ status = "returned"
    /\ \E st \in Stale(dirpath) : fs' = fs @@ st
    /\ pc' = "stale"
    /\ UNCHANGED <<config, mode, i, status, err, run, pre, prev, dirpath>>

NextMakeDir == MakeDirCall \/ PlaceStale

SpecMakeDir == InitMakeDir /\ [][NextMakeDir]_vars

(* ---- what the claims talk about ---- *)

Range(seq) == {seq[k] : k \in 1..Len(seq)}

Keys == {"dotfiles", "dotfolders", "exclude"}

Dotfiles == IF HasKey(config, "dotfiles") THEN config["dotfiles"] ELSE << >>

Dotfolders == IF HasKey(config, "dotfolders") THEN config["dotfolders"] ELSE << >>

Exclude == IF HasKey(config, "exclude") THEN config["exclude"] ELSE {}

\* every recognised key present, an absent one mapped to an empty list
WithDefaults(cfg) ==
    [k \in Keys |-> IF HasKey(cfg, k) THEN cfg[k]
                    ELSE IF k = "exclude" THEN {} ELSE << >>]

SrcOf(item) == Home \o <<Dot(item)>>

DstOf(item) == Root \o <<item>>

IsDir(f, p) == p \in DOMAIN f /\ f[p] = "dir"

IsFile(f, p) == p \in DOMAIN f /\ f[p] # "dir"

\* the tree at p: the relative path and the node of every entry below p
Tree(f, p) == {<<SubSeq(q, Len(p) + 1, Len(q)), f[q]>> : q \in Below(f, p)}

\* the entries of the tree at p that neither have a basename in ex nor lie
\* below a directory that has
TreeWithout(f, p, ex) ==
    {<<SubSeq(q, Len(p) + 1, Len(q)), f[q]>> :
        q \in {x \in Below(f, p) : \A k \in (Len(p) + 1)..Len(x) : x[k] \notin ex}}

BackupOver == mode = "backup" /\ status # "running"

(* The stepwise run and backup as a whole agree. *)
StepsAgreeWithBackup ==
    BackupOver =>
        LET r == backup(pre, config)
        IN  fs = r.fs /\ err = r.err

\* the run is not cut short by a missing key or a missing dotfile source
CleanInputs ==
    /\ DOMAIN config = Keys
    /\ \A n \in Range(Dotfiles) : IsFile(pre, SrcOf(n))

(* C1: for every name n listed in dotfiles and present in exclude, after    *)
(* backup returns the destination <Root>/n does not exist (and no error was *)
(* raised).  Stated for the runs that return without error over all three   *)
(* keys and existing source files.                                          *)
C1_ExcludedDotfileAbsent ==
    (mode = "backup" /\ status = "returned" /\ CleanInputs) =>
        \A n \in Range(Dotfiles) \cap Exclude : ~exists(fs, DstOf(n))

(* C2: for every name d listed in dotfolders and present in exclude, after  *)
(* backup returns no entry named d (file or directory, even empty) exists   *)
(* under the backup root, and no error was raised.  Stated for the runs     *)
(* that start on an empty or absent backup root, over all three keys and    *)
(* existing sources.                                                        *)
C2_ExcludedDotfolderAbsent ==
    (BackupOver /\ CleanInputs /\ Below(pre, Root) = {}) =>
        \A d \in Range(Dotfolders) \cap Exclude :
            IsDir(pre, SrcOf(d)) =>
                status = "returned" /\ ~exists(fs, DstOf(d))

(* C3: for every configured dotfolder d that is not excluded and whose      *)
(* source directory exists, backup completes without error and leaves       *)
(* <Root>/d containing exactly the entries of <home>/.d whose basename is   *)
(* not in exclude and that do not lie below an excluded directory.  Stated  *)
(* for the runs over all three keys and existing sources.                   *)
C3_DotfolderCopied ==
    (BackupOver /\ CleanInputs
        /\ \A d \in Range(Dotfolders) : IsDir(pre, SrcOf(d))) =>
        \A d \in Range(Dotfolders) :
            (d \notin Exclude /\ Dot(d) \notin Exclude)
            => /\ status = "returned"
               /\ IsDir(fs, DstOf(d))
               /\ Tree(fs, DstOf(d)) = TreeWithout(fs, SrcOf(d), Exclude)

(* C4: after a run of main that completes without error, with the sources   *)
(* of all configured dotfiles and dotfolders existing, the output directory *)
(* has an entry <Root>/<name> for every name in dotfiles and in dotfolders  *)
(* that is not excluded.                                                    *)
C4_OneEntryPerItem ==
    (/\ mode = "main"
     /\ status = "returned"
     /\ \A n \in Range(Dotfiles) : IsFile(fs, SrcOf(n))
     /\ \A d \in Range(Dotfolders) : IsDir(fs, SrcOf(d)))
    => \A n \in Range(Dotfiles) \cup Range(Dotfolders) :
          (n \notin Exclude /\ Dot(n) \notin Exclude) => exists(fs, DstOf(n))

(* C5: for a configuration that lacks one of the keys dotfiles, dotfolders, *)
(* exclude, backup raises no error and ends in the destination state of     *)
(* backup on the same configuration with the key mapped to an empty list.   *)
(* Stated for the configurations on which that second run raises no error.  *)
C5_MissingKeyIsEmptyList ==
    (/\ BackupOver
     /\ DOMAIN config # Keys
     /\ backup(pre, WithDefaults(config)).err = "none")
    => /\ status = "returned"
       /\ fs = backup(pre, WithDefaults(config)).fs

(* C6: running backup twice in succession on the same destination root,     *)
(* configuration and source state unchanged, leaves the destination tree    *)
(* the first run left.                                                      *)
C6_Idempotent ==
    (BackupOver /\ run >= 2) => fs = prev

C6_Witness ==
    /\ BackupOver
    /\ run = 2
    /\ status = "returned"
    /\ IsFile(fs, SrcOf(A))
    /\ IsFile(fs, DstOf(A))
    /\ fs[DstOf(A)] = fs[SrcOf(A)]

(* C7: if path is absent (with any number of missing ancestors) or is a     *)
(* directory with arbitrary contents, then after make_dir(path) returns,    *)
(* path is a directory and is empty; so for every call of a sequence of     *)
(* calls on the same path, with stale files placed in it between calls.     *)
C7_MakeDirLeavesEmpty ==
    (/\ mode = "make_dir"
     /\ pc = "called"
     /\ \/ IsDir(pre, dirpath)
        \/ /\ ~exists(pre, dirpath)
           /\ \A q \in Prefixes(dirpath) : ~IsFile(pre, q))
    => /\ status = "returned"
       /\ IsDir(fs, dirpath)
       /\ Below(fs, dirpath) = {}

C7_Witness ==
    /\ mode = "make_dir"
    /\ pc = "called"
    /\ run >= 2
    /\ Below(pre, dirpath) # {}
    /\ status = "returned"
    /\ Below(fs, dirpath) = {}

(* C8: after backup returns without error the backup root exists and holds  *)
(* only entries written by that run: no entry that was under the root       *)
(* before the run survives, and with dotfiles, dotfolders and exclude all   *)
(* empty the root exists and is empty.  Stated for the configurations that  *)
(* have all three keys.                                                     *)
C8_RootHoldsOnlyThisRun ==
    (mode = "backup" /\ status = "returned" /\ DOMAIN config = Keys) =>
        /\ IsDir(fs, Root)
        /\ \A q \in Below(fs, Root) : ~(q \in DOMAIN pre /\ Name(q) = Old)
        /\ (Dotfiles = << >> /\ Dotfolders = << >> /\ Exclude = {})
              => Below(fs, Root) = {}

(* C9: a filesystem error during copy is fatal.  When backup reaches a      *)
(* dotfile whose source basename is not in exclude and whose source does    *)
(* not exist, it ends there with FileNotFoundError; when it reaches a       *)
(* dotfolder whose source basename is not in exclude, whose source is a     *)
(* directory and whose destination make_dir has just created, it ends       *)
(* there with FileExistsError.  The handler for the missing key does not    *)
(* catch either, no later item is processed, and the destination stays as   *)
(* the failing item left it (the cleared directory stays cleared).          *)
C9_CopyErrorIsFatal ==
    [][ (mode = "backup" /\ run' = run) =>
          /\ (/\ status = "running" /\ pc = "files" /\ i <= Len(Dotfiles)
              /\ HasKey(config, "exclude")
              /\ Dot(Dotfiles[i]) \notin Exclude
              /\ ~exists(fs, SrcOf(Dotfiles[i])))
             => /\ status' = "raised" /\ err' = "FileNotFoundError"
                /\ pc' = pc /\ i' = i
                /\ IsDir(fs', Root) /\ Below(fs', Root) = {}
          /\ (/\ status = "running" /\ pc = "folders" /\ i <= Len(Dotfolders)
              /\ HasKey(config, "exclude")
              /\ Dot(Dotfolders[i]) \notin Exclude
              /\ IsDir(fs, SrcOf(Dotfolders[i]))
              /\ ~IsFile(fs, DstOf(Dotfolders[i])))
             => /\ status' = "raised" /\ err' = "FileExistsError"
                /\ pc' = pc /\ i' = i
                /\ IsDir(fs', DstOf(Dotfolders[i]))
                /\ Below(fs', DstOf(Dotfolders[i])) = {}
          /\ status = "raised" => UNCHANGED <<fs, pc, i, status, err>>
      ]_vars

C9_Witness ==
    /\ mode = "backup"
    /\ status = "raised"
    /\ err \in {"FileNotFoundError", "FileExistsError"}
    /\ pc = "files"
    /\ i < Len(Dotfiles)
    /\ Below(pre, Root) # {}
    /\ Below(fs, Root) = {}

(* C10: copy_file clears the parent directory of its destination before it  *)
(* tests exclusion and copies, and the dotfiles come first; so after the    *)
(* dotfile phase over a list of two or more names the only dotfile          *)
(* destination that can exist is that of the last entry, every earlier      *)
(* dotfile's copy is gone, and none exists if the last entry is excluded.   *)
C10_LastWriteWins ==
    (/\ mode \in {"backup", "main"}
     /\ pc = "files"
     /\ Len(Dotfiles) >= 2
     /\ i = Len(Dotfiles) + 1)
    => LET last == Dotfiles[Len(Dotfiles)]
       IN  /\ Children(fs, Root) \subseteq {DstOf(last)}
           /\ \A k \in 1..(Len(Dotfiles) - 1) :
                 Dotfiles[k] # last => ~exists(fs, DstOf(Dotfiles[k]))
           /\ Dot(last) \in Exclude => Children(fs, Root) = {}

C10_Witness ==
    /\ pc = "files"
    /\ Dotfiles = <<A, B>>
    /\ i = 3
    /\ IsFile(pre, SrcOf(A))
    /\ IsFile(fs, DstOf(B))
    /\ ~exists(fs, DstOf(A))

====
